---------------------------- MODULE Spec2Model ----------------------------
(***************************************************************************)
(* A model of TrendRadar's custom-source adapter (src/sources.py):         *)
(*   - BaseSource._rate_limit, the per-instance minimum-interval gate      *)
(*   - the REST / RSS / HTML adapters' item filter and _mk_item            *)
(*   - fetch_custom_all and get_all_custom_sources, the orchestrator       *)
(*   - dedup_items / merge_items                                           *)
(*   - custom_to_results                                                   *)
(*   - parse_ts                                                            *)
(* Each part has its own variables, its own actions and its own            *)
(* specification; the other parts' variables are parked while it runs.     *)
(* Text is a sequence of one-character strings, so that normalisation and  *)
(* trimming are computed and not assumed.                                  *)
(***************************************************************************)
EXTENDS Integers, Sequences, FiniteSets, TLC

VARIABLES
  \* ---- BaseSource._rate_limit ----
  rpm,          \* cfg["rate_limit"]["rpm"] (0: not configured)
  clock,        \* time.monotonic(), in seconds
  last,         \* self._last
  lock,         \* self._lock: 0 when free, else the caller holding it
  rlpc,         \* each caller's position in _rate_limit
  wake,         \* the time each sleeping caller's asyncio.sleep ends
  ret           \* the time each caller returned from _rate_limit (-1: not yet)

VARIABLES
  \* ---- get_all_custom_sources / fetch_custom_all ----
  fpc,          \* "sync" | "ready" | "gather" | "done" | "idle"
  dir_raw,      \* the source objects read from the custom directory, in file order
  cfg_sources,  \* CONFIG["CUSTOM_SOURCES"]
  src_cfgs,     \* config["custom_sources"], as fetch_custom_all receives it
  tasks,        \* tasks[t]: the index in src_cfgs of the config task t was built from
  results,      \* results[t]: pending, an exception, or the task's items
  outOfOrder,   \* history: some task completed before a task dispatched earlier
  merged,       \* the list fetch_custom_all returns
  logged        \* the keys printed by the "[ERROR]" lines, in order

VARIABLES
  \* ---- the adapters' fetch loops and _mk_item ----
  apc,          \* "fetch" | "done" | "idle"
  adapter,      \* "rest" | "rss" | "html_text" | "html_attr"
  has_opencc,   \* whether OpenCC was importable (the global _opencc)
  feed,         \* the raw entries the endpoint delivered: [title, url]
  fetched       \* the Items the adapter's fetch returned

VARIABLES
  \* ---- dedup_items / merge_items ----
  dpc,          \* "scan" | "scanned" | "again" | "idle"
  items,        \* the input list (merge_items passes base_items + custom_items)
  enable_fuzzy, \* the enable_fuzzy argument
  has_fuzz,     \* whether rapidfuzz was importable (the global fuzz)
  fuzzy_threshold,
  scanned,      \* how many input items the pass has examined
  seen_url,     \* seen_url
  seen_title,   \* the keys of seen_title
  out,          \* the positions (in items) of the items appended to out
  second        \* dedup_items applied to the first result

VARIABLES
  \* ---- custom_to_results ----
  rpc,          \* "loop" | "done" | "raised" | "idle"
  custom_items, \* the argument
  rpos,         \* how many items the loop has handled
  c_results,    \* c_results: (sid, title) -> [ranks, url, mobileUrl]
  c_id_to_name  \* c_id_to_name: sid -> display name

VARIABLES
  \* ---- parse_ts ----
  tpc,          \* "call" | "done" | "idle"
  tv,           \* the argument v
  now_ts,       \* what _now_ts() returns during the call
  tres          \* the value returned

rlVars == <<rpm, clock, last, lock, rlpc, wake, ret>>
faVars == <<fpc, dir_raw, cfg_sources, src_cfgs, tasks, results, outOfOrder,
            merged, logged>>
adVars == <<apc, adapter, has_opencc, feed, fetched>>
ddVars == <<dpc, items, enable_fuzzy, has_fuzz, fuzzy_threshold, scanned,
            seen_url, seen_title, out, second>>
rsVars == <<rpc, custom_items, rpos, c_results, c_id_to_name>>
tsVars == <<tpc, tv, now_ts, tres>>

vars == <<rlVars, faVars, adVars, ddVars, rsVars, tsVars>>

notRL == <<faVars, adVars, ddVars, rsVars, tsVars>>
notFA == <<rlVars, adVars, ddVars, rsVars, tsVars>>
notAD == <<rlVars, faVars, ddVars, rsVars, tsVars>>
notDD == <<rlVars, faVars, adVars, rsVars, tsVars>>
notRS == <<rlVars, faVars, adVars, ddVars, tsVars>>
notTS == <<rlVars, faVars, adVars, ddVars, rsVars>>

-----------------------------------------------------------------------------
(* Bounds *)

NCallers == 3
MaxTime == 9
MaxCfgs == 2
MaxFeed == 2
MaxItems == 3
MaxRows == 2

-----------------------------------------------------------------------------
(* Text helpers: a string is a sequence of characters.                      *)

SeqsUpTo(S, n) == UNION {[1..k -> S] : k \in 0..n}

-----------------------------------------------------------------------------
(* Parked values of each part's variables                                   *)

IdleRL ==
  /\ rpm = 0 /\ clock = 0 /\ last = 0 /\ lock = 0
  /\ rlpc = <<>> /\ wake = <<>> /\ ret = <<>>

IdleFA ==
  /\ fpc = "idle" /\ dir_raw = <<>> /\ cfg_sources = <<>> /\ src_cfgs = <<>>
  /\ tasks = <<>> /\ results = <<>> /\ outOfOrder = FALSE
  /\ merged = <<>> /\ logged = <<>>

IdleAD ==
  /\ apc = "idle" /\ adapter = "rest" /\ has_opencc = FALSE
  /\ feed = <<>> /\ fetched = <<>>

IdleDD ==
  /\ dpc = "idle" /\ items = <<>> /\ enable_fuzzy = FALSE /\ has_fuzz = FALSE
  /\ fuzzy_threshold = 0 /\ scanned = 0 /\ seen_url = {} /\ seen_title = {}
  /\ out = <<>> /\ second = <<>>

IdleRS ==
  /\ rpc = "idle" /\ custom_items = <<>> /\ rpos = 0 /\ c_results = <<>>
  /\ c_id_to_name = <<>>

IdleTS ==
  /\ tpc = "idle" /\ tv = <<>> /\ now_ts = <<>> /\ tres = <<>>

-----------------------------------------------------------------------------
(* BaseSource._rate_limit                                                   *)

Callers == 1..NCallers

\* the rpm values a config may carry; 0 stands for "no rate_limit"
Rpms == {0, 20, 30}

\* BaseSource.__init__: self.min_interval
min_interval == IF rpm # 0 THEN 60 \div rpm ELSE 0

\* a plausible slip: the sign of the elapsed time is flipped
RateWaitFlipped(now, lst, mi) == (now - lst) - mi

\* wait = self.min_interval - (now - self._last)
RateWait(now, lst, mi) == mi - (now - lst)

InitRL ==
  /\ IdleFA /\ IdleAD /\ IdleDD /\ IdleRS /\ IdleTS
  /\ rpm \in Rpms
  /\ clock \in 0..1
  /\ last = 0
  /\ lock = 0
  /\ rlpc = [c \in Callers |-> "start"]
  /\ wake = [c \in Callers |-> 0]
  /\ ret = [c \in Callers |-> -1]

\* time passes
Tick ==
  /\ UNCHANGED notRL
  /\ clock < MaxTime
  /\ clock' = clock + 1
  /\ UNCHANGED <<rpm, last, lock, rlpc, wake, ret>>

\* the call starts: "if self.min_interval <= 0: return", else queue for the lock
Call(c) ==
  /\ UNCHANGED notRL
  /\ rlpc[c] = "start"
  /\ IF min_interval <= 0
       THEN /\ rlpc' = [rlpc EXCEPT ![c] = "done"]
            /\ ret' = [ret EXCEPT ![c] = clock]
       ELSE /\ rlpc' = [rlpc EXCEPT ![c] = "acquire"]
            /\ ret' = ret
  /\ UNCHANGED <<rpm, clock, last, lock, wake>>

\* "async with self._lock": the lock is taken, now is read, wait is computed
Acquire(c) ==
  /\ UNCHANGED notRL
  /\ rlpc[c] = "acquire"
  /\ lock = 0
  /\ lock' = c
  /\ LET wait == RateWait(clock, last, min_interval)
     IN IF wait > 0
          THEN /\ rlpc' = [rlpc EXCEPT ![c] = "sleeping"]
               /\ wake' = [wake EXCEPT ![c] = clock + wait]
          ELSE /\ rlpc' = [rlpc EXCEPT ![c] = "stamp"]
               /\ wake' = wake
  /\ UNCHANGED <<rpm, clock, last, ret>>

\* asyncio.sleep(wait) ends, no earlier than asked
WakeUp(c) ==
  /\ UNCHANGED notRL
  /\ rlpc[c] = "sleeping"
  /\ clock >= wake[c]
  /\ rlpc' = [rlpc EXCEPT ![c] = "stamp"]
  /\ UNCHANGED <<rpm, clock, last, lock, wake, ret>>

\* "self._last = time.monotonic()", the lock is released and the call returns,
\* all in one scheduler step (nothing is awaited in between)
Stamp(c) ==
  /\ UNCHANGED notRL
  /\ rlpc[c] = "stamp"
  /\ lock = c
  /\ last' = clock
  /\ lock' = 0
  /\ ret' = [ret EXCEPT ![c] = clock]
  /\ rlpc' = [rlpc EXCEPT ![c] = "done"]
  /\ UNCHANGED <<rpm, clock, wake>>

NextRL ==
  \/ Tick
  \/ \E c \in Callers : Call(c)
  \/ \E c \in Callers : Acquire(c)
  \/ \E c \in Callers : WakeUp(c)
  \/ \E c \in Callers : Stamp(c)

SpecRL == InitRL /\ [][NextRL]_vars

\* C1: with min_interval > 0, the times at which any two calls on one source
\* instance return from _rate_limit differ by at least min_interval, under
\* every interleaving of the callers.
C1_Spacing ==
  min_interval > 0 =>
    \A a, b \in Callers :
      (a # b /\ rlpc[a] = "done" /\ rlpc[b] = "done") =>
        (ret[a] - ret[b] >= min_interval \/ ret[b] - ret[a] >= min_interval)

\* two callers have both gone through a gate with a positive interval, the
\* second exactly min_interval after the first, while a third queued for the lock
C1_Witness ==
  /\ min_interval > 0
  /\ \E a, b, c \in Callers :
       /\ a # b /\ b # c /\ a # c
       /\ rlpc[a] = "done" /\ rlpc[b] = "done"
       /\ ret[b] - ret[a] = min_interval
       /\ rlpc[c] = "acquire"

-----------------------------------------------------------------------------
(* get_all_custom_sources and fetch_custom_all                              *)

Keys == {"a", "b"}
Types == {"rest", "rss", "html", "ftp"}

\* a source object as configuration delivers it
CfgSet == [key : Keys, type : Types, enabled : BOOLEAN, endpoint : {TRUE}]
             \cup {[key |-> "a", type |-> "rest", enabled |-> TRUE, endpoint |-> FALSE]}

\* _normalize_single_source: FALSE stands for the None it returns. A key is
\* always given here, so the key defaulted from the file name does not arise.
NormalizeKeeps(obj) ==
  /\ obj.enabled # FALSE
  /\ obj.type \in {"rest", "rss", "html"}
  /\ obj.endpoint

\* a dict keyed by s["key"], held as the sequence of its values in insertion
\* order: a later value of a key replaces the earlier one in place
DictPut(d, s) ==
  IF \E i \in 1..Len(d) : d[i].key = s.key
    THEN [i \in 1..Len(d) |-> IF d[i].key = s.key THEN s ELSE d[i]]
    ELSE Append(d, s)

RECURSIVE DictOf(_)
DictOf(ss) ==
  IF ss = <<>> THEN <<>>
  ELSE DictPut(DictOf(SubSeq(ss, 1, Len(ss) - 1)), ss[Len(ss)])

RECURSIVE KeepNormalized(_)
KeepNormalized(raws) ==
  IF raws = <<>> THEN <<>>
  ELSE IF NormalizeKeeps(Head(raws))
         THEN <<Head(raws)>> \o KeepNormalized(Tail(raws))
         ELSE KeepNormalized(Tail(raws))

\* load_custom_sources_from_dir: the normalized sources, a later one of the
\* same key replacing the earlier one
load_custom_sources_from_dir(raws) == DictOf(KeepNormalized(raws))

\* get_all_custom_sources: CONFIG's sources by key, then the directory's on top
get_all_custom_sources(raws, cfgs) ==
  DictOf(cfgs \o load_custom_sources_from_dir(raws))

\* _build_source: whether an adapter is built (FALSE stands for None)
_build_source(cfg) == cfg.type = "rest" \/ cfg.type = "rss" \/ cfg.type = "html"

\* the loop "for sc in src_cfgs": the configs an adapter is built from, in order
RECURSIVE BuiltFrom(_, _)
BuiltFrom(cfgs, i) ==
  IF i > Len(cfgs) THEN <<>>
  ELSE IF _build_source(cfgs[i]) THEN <<i>> \o BuiltFrom(cfgs, i + 1)
       ELSE BuiltFrom(cfgs, i + 1)

\* what the endpoint of config i delivers when its fetch succeeds: two items
\* from a REST list, one from a feed, none from an HTML page
FeedSize(cfg) == IF cfg.type = "rest" THEN 2 ELSE IF cfg.type = "rss" THEN 1 ELSE 0

FeedItems(cfgs, i) ==
  [n \in 1..FeedSize(cfgs[i]) |-> [source_key |-> cfgs[i].key, cfg |-> i, n |-> n]]

Pending == [st |-> "pending", items |-> <<>>]
Raised == [st |-> "exc", items |-> <<>>]

\* the collection loop of fetch_custom_all: merged
\* a slip: the loop stops at the first exception instead of going on
RECURSIVE MergeUntilFailure(_)
MergeUntilFailure(rs) ==
  IF rs = <<>> THEN <<>>
  ELSE IF Head(rs).st = "exc" THEN <<>>
       ELSE Head(rs).items \o MergeUntilFailure(Tail(rs))

RECURSIVE MergeResults(_)
MergeResults(rs) ==
  IF rs = <<>> THEN <<>>
  ELSE IF Head(rs).st = "exc" THEN MergeResults(Tail(rs))
       ELSE Head(rs).items \o MergeResults(Tail(rs))

\* the collection loop of fetch_custom_all: the key printed for each exception,
\* key = src_cfgs[i].get("key", ...) with i the position in results
RECURSIVE LoggedKeys(_, _, _)
LoggedKeys(cfgs, rs, i) ==
  IF i > Len(rs) THEN <<>>
  ELSE IF rs[i].st = "exc" THEN <<cfgs[i].key>> \o LoggedKeys(cfgs, rs, i + 1)
       ELSE LoggedKeys(cfgs, rs, i + 1)

InitFA ==
  /\ IdleRL /\ IdleAD /\ IdleDD /\ IdleRS /\ IdleTS
  /\ \/ /\ fpc = "ready"                      \* fetch_custom_all called directly
        /\ src_cfgs \in SeqsUpTo(CfgSet, MaxCfgs)
        /\ dir_raw = <<>> /\ cfg_sources = <<>>
     \/ /\ fpc = "sync"                       \* through fetch_custom_all_sync
        /\ \E n \in 0..MaxCfgs :
             /\ dir_raw \in SeqsUpTo(CfgSet, n)
             /\ cfg_sources \in SeqsUpTo(CfgSet, MaxCfgs - n)
        /\ src_cfgs = <<>>
  /\ tasks = <<>> /\ results = <<>> /\ outOfOrder = FALSE
  /\ merged = <<>> /\ logged = <<>>

\* fetch_custom_all_sync: all_sources = get_all_custom_sources(CONFIG)
GetAllSources ==
  /\ fpc = "sync"
  /\ src_cfgs' = get_all_custom_sources(dir_raw, cfg_sources)
  /\ fpc' = "ready"
  /\ UNCHANGED <<dir_raw, cfg_sources, tasks, results, outOfOrder, merged, logged>>
  /\ UNCHANGED notFA

\* fetch_custom_all up to asyncio.gather: one task per adapter built
Dispatch ==
  /\ fpc = "ready"
  /\ tasks' = BuiltFrom(src_cfgs, 1)
  /\ results' = [t \in 1..Len(tasks') |-> Pending]
  /\ fpc' = "gather"
  /\ UNCHANGED <<dir_raw, cfg_sources, src_cfgs, outOfOrder, merged, logged>>
  /\ UNCHANGED notFA

\* task t's fetch ends, with an exception or with its items; a config without
\* an endpoint can only raise (cfg["endpoint"])
Complete(t) ==
  /\ fpc = "gather"
  /\ results[t].st = "pending"
  /\ \/ results' = [results EXCEPT ![t] = Raised]
     \/ /\ src_cfgs[tasks[t]].endpoint
        /\ results' = [results EXCEPT
                         ![t] = [st |-> "ok", items |-> FeedItems(src_cfgs, tasks[t])]]
  /\ outOfOrder' = (outOfOrder \/ \E u \in 1..(t - 1) : results[u].st = "pending")
  /\ UNCHANGED <<fpc, dir_raw, cfg_sources, src_cfgs, tasks, merged, logged>>
  /\ UNCHANGED notFA

\* gather returns; the results are walked in task order and the list returned
Collect ==
  /\ fpc = "gather"
  /\ \A t \in 1..Len(results) : results[t].st # "pending"
  /\ merged' = MergeResults(results)
  /\ logged' = LoggedKeys(src_cfgs, results, 1)
  /\ fpc' = "done"
  /\ UNCHANGED <<dir_raw, cfg_sources, src_cfgs, tasks, results, outOfOrder>>
  /\ UNCHANGED notFA

NextFA ==
  \/ GetAllSources
  \/ Dispatch
  \/ \E t \in 1..Len(tasks) : Complete(t)
  \/ Collect

SpecFA == InitFA /\ [][NextFA]_vars

\* the task built from config i, 0 when none was
TaskOf(i) == IF \E t \in 1..Len(tasks) : tasks[t] = i
               THEN CHOOSE t \in 1..Len(tasks) : tasks[t] = i
               ELSE 0

\* the items config i contributes: those of its fetch when it succeeded
Contribution(i) ==
  IF TaskOf(i) # 0 /\ results[TaskOf(i)].st = "ok"
    THEN FeedItems(src_cfgs, i) ELSE <<>>

RECURSIVE ConcatInConfigOrder(_)
ConcatInConfigOrder(i) ==
  IF i > Len(src_cfgs) THEN <<>>
  ELSE Contribution(i) \o ConcatInConfigOrder(i + 1)

\* C2: whatever sources fail and in whatever order the fetches complete,
\* fetch_custom_all returns the items of the sources whose fetch succeeded,
\* concatenated in source-config order and within-source order; a failed source
\* contributes nothing and every sibling still runs to completion.
C2_ConcatOfSuccesses ==
  fpc = "done" =>
    /\ merged = ConcatInConfigOrder(1)
    /\ \A t \in 1..Len(results) : results[t].st \in {"ok", "exc"}

\* a run in which a source failed, a later source succeeded with items, and
\* the tasks completed out of dispatch order
C2_Witness ==
  /\ fpc = "done"
  /\ outOfOrder
  /\ \E t, u \in 1..Len(results) :
       t < u /\ results[t].st = "exc" /\ results[u].st = "ok" /\ Len(results[u].items) = 2
  /\ Len(merged) > 0

\* the configs whose fetch failed, in task order
RECURSIVE FailedKeys(_)
FailedKeys(t) ==
  IF t > Len(tasks) THEN <<>>
  ELSE IF results[t].st = "exc"
         THEN <<src_cfgs[tasks[t]].key>> \o FailedKeys(t + 1)
         ELSE FailedKeys(t + 1)

\* C7: the key printed for a failed fetch is the key of the config that task's
\* adapter was built from, also when configs of unrecognized type were skipped.
C7_LoggedKeyIsOwnKey ==
  fpc = "done" => logged = FailedKeys(1)

\* C8: an adapter is built and fetched only for configs that are enabled and of
\* type rest, rss or html, whether the configs come directly or through
\* get_all_custom_sources.
C8_OnlyEnabledRecognized ==
  \A t \in 1..Len(tasks) :
    /\ src_cfgs[tasks[t]].enabled
    /\ src_cfgs[tasks[t]].type \in {"rest", "rss", "html"}

-----------------------------------------------------------------------------
(* Text: normalize_text and trimming                                        *)
(* Characters: "a", "b", "x" plain letters; " " a space; "FWA" the          *)
(* full-width letter a (NFKC folds it to "a"); "IDSP" the ideographic space *)
(* U+3000 (NFKC folds it to " "); "TRAD" a traditional character that       *)
(* OpenCC('t2s') converts to "SIMP"; "H" the prefix "http://host/".         *)

\* unicodedata.normalize("NFKC", s), character by character
NFKC(c) == IF c = "FWA" THEN "a" ELSE IF c = "IDSP" THEN " " ELSE c

\* _opencc.convert, character by character
OpenCCConvert(c) == IF c = "TRAD" THEN "SIMP" ELSE c

\* the characters str.strip() removes
IsSpace(c) == c \in {" ", "IDSP"}

RECURSIVE LStrip(_)
LStrip(s) == IF s # <<>> /\ IsSpace(Head(s)) THEN LStrip(Tail(s)) ELSE s

RECURSIVE RStrip(_)
RStrip(s) ==
  IF s # <<>> /\ IsSpace(s[Len(s)]) THEN RStrip(SubSeq(s, 1, Len(s) - 1)) ELSE s

\* str.strip()
Strip(s) == RStrip(LStrip(s))

\* normalize_text(s, use_opencc); opencc: whether the module-level _opencc exists
normalize_text(s, use_opencc, opencc) ==
  IF s = <<>> THEN <<>>
  ELSE Strip([i \in 1..Len(s) |->
                IF use_opencc /\ opencc THEN OpenCCConvert(NFKC(s[i]))
                ELSE NFKC(s[i])])

-----------------------------------------------------------------------------
(* The adapters' fetch loops and BaseSource._mk_item                        *)

\* the raw title and url values an endpoint can deliver; <<>> is "" or None
RawTitles == {<<>>, <<" ">>, <<"a">>, <<" ", "FWA">>, <<"IDSP">>, <<"TRAD">>}
RawUrls == {<<>>, <<" ">>, <<"H", "x">>, <<"x", " ">>}
RawEntries == [title : RawTitles, url : RawUrls]

\* the page address of an HTML source
Endpoint == <<"H", "p">>

\* BaseSource._mk_item: the Item's title and url (ts, rank, source and id do
\* not bear on them)
_mk_item(title, url, opencc) ==
  [title |-> normalize_text(title, TRUE, opencc), url |-> Strip(url)]

\* "if not title or not url: continue"
Incomplete(title, url) == title = <<>> \/ url = <<>>

\* RestSource.fetch, the loop over lst
RECURSIVE RestItems(_, _)
RestItems(lst, opencc) ==
  IF lst = <<>> THEN <<>>
  ELSE LET it == Head(lst)
       IN IF Incomplete(it.title, it.url) THEN RestItems(Tail(lst), opencc)
          ELSE <<_mk_item(it.title, it.url, opencc)>> \o RestItems(Tail(lst), opencc)

\* RssSource.fetch, the loop over feed.entries
RECURSIVE RssItems(_, _)
RssItems(entries, opencc) ==
  IF entries = <<>> THEN <<>>
  ELSE LET e == Head(entries)
       IN IF Incomplete(e.title, e.url) THEN RssItems(Tail(entries), opencc)
          ELSE <<_mk_item(e.title, e.url, opencc)>> \o RssItems(Tail(entries), opencc)

\* urllib.parse.urljoin(ep, url) for a url that is not absolute: leading
\* blanks are dropped and the rest is resolved against the page address
urljoin(ep, url) ==
  IF LStrip(url) = <<>> THEN ep ELSE <<"H">> \o LStrip(url)

\* url.startswith(("http://", "https://"))
IsAbsolute(url) == url # <<>> /\ Head(url) = "H"

\* HtmlSource.fetch, the loop over soup.select(item_sel); title_attr = "text"
\* reads get_text(strip=True), any other value reads the attribute as it is
RECURSIVE HtmlItems(_, _, _)
HtmlItems(nodes, title_attr, opencc) ==
  IF nodes = <<>> THEN <<>>
  ELSE LET a == Head(nodes)
           title == IF title_attr = "text" THEN Strip(a.title) ELSE a.title
           url == IF a.url # <<>> /\ ~IsAbsolute(a.url)
                    THEN urljoin(Endpoint, a.url) ELSE a.url
       IN IF Incomplete(title, url) THEN HtmlItems(Tail(nodes), title_attr, opencc)
          ELSE <<_mk_item(title, url, opencc)>>
                 \o HtmlItems(Tail(nodes), title_attr, opencc)

InitAD ==
  /\ IdleRL /\ IdleFA /\ IdleDD /\ IdleRS /\ IdleTS
  /\ apc = "fetch"
  /\ adapter \in {"rest", "rss", "html_text", "html_attr"}
  /\ has_opencc \in BOOLEAN
  /\ feed \in SeqsUpTo(RawEntries, MaxFeed)
  /\ fetched = <<>>

RestFetch ==
  /\ apc = "fetch" /\ adapter = "rest"
  /\ fetched' = RestItems(feed, has_opencc)
  /\ apc' = "done"
  /\ UNCHANGED <<adapter, has_opencc, feed>>
  /\ UNCHANGED notAD

RssFetch ==
  /\ apc = "fetch" /\ adapter = "rss"
  /\ fetched' = RssItems(feed, has_opencc)
  /\ apc' = "done"
  /\ UNCHANGED <<adapter, has_opencc, feed>>
  /\ UNCHANGED notAD

HtmlFetch ==
  /\ apc = "fetch" /\ adapter \in {"html_text", "html_attr"}
  /\ fetched' = HtmlItems(feed, IF adapter = "html_text" THEN "text" ELSE "title",
                          has_opencc)
  /\ apc' = "done"
  /\ UNCHANGED <<adapter, has_opencc, feed>>
  /\ UNCHANGED notAD

NextAD ==
  \/ RestFetch
  \/ RssFetch
  \/ HtmlFetch

SpecAD == InitAD /\ [][NextAD]_vars

\* C3: every item an adapter returns has a non-empty title and a non-empty
\* url, whatever raw title and url values the source delivered.
C3_ItemsComplete ==
  apc = "done" =>
    \A i \in 1..Len(fetched) : Len(fetched[i].title) > 0 /\ Len(fetched[i].url) > 0

-----------------------------------------------------------------------------
(* rapidfuzz's fuzz.token_set_ratio, for titles whose tokens are single     *)
(* letters: the score is compared with the threshold in integer arithmetic  *)

\* s.split(): the set of the tokens of s
RECURSIVE Tokens(_)
Tokens(s) ==
  IF s = <<>> THEN {}
  ELSE IF IsSpace(Head(s)) THEN Tokens(Tail(s))
       ELSE {Head(s)} \cup Tokens(Tail(s))

\* len(" ".join(tokens)) for n one-letter tokens
JoinedLen(n) == IF n = 0 THEN 0 ELSE 2 * n - 1

Min(a, b) == IF a <= b THEN a ELSE b

\* Indel distance of the two joined differences: they share no letter, so
\* their longest common subsequence is made of the separating blanks
IndelOfDiffs(na, nb) ==
  JoinedLen(na) + JoinedLen(nb)
    - 2 * (IF na > 0 /\ nb > 0 THEN Min(na, nb) - 1 ELSE 0)

\* 100 - 100 * dist / lensum >= thr
ScoreAtLeast(dist, lensum, thr) ==
  IF lensum = 0 THEN 100 >= thr
  ELSE 100 * (lensum - dist) >= thr * lensum

\* fuzz.token_set_ratio(s1, s2) >= thr
TokenSetRatioAtLeast(s1, s2, thr) ==
  LET ta == Tokens(s1)
      tb == Tokens(s2)
      sect == Cardinality(ta \cap tb)
      nab == Cardinality(ta \ tb)
      nba == Cardinality(tb \ ta)
      sect_len == JoinedLen(sect)
      sep == IF sect_len # 0 THEN 1 ELSE 0
      sect_ab_len == sect_len + sep + JoinedLen(nab)
      sect_ba_len == sect_len + sep + JoinedLen(nba)
  IN IF ta = {} \/ tb = {} THEN 0 >= thr
     ELSE IF sect > 0 /\ (nab = 0 \/ nba = 0) THEN 100 >= thr
     ELSE \/ ScoreAtLeast(IndelOfDiffs(nab, nba), sect_ab_len + sect_ba_len, thr)
          \/ /\ sect_len # 0
             /\ \/ ScoreAtLeast(sep + JoinedLen(nab), sect_len + sect_ab_len, thr)
                \/ ScoreAtLeast(sep + JoinedLen(nba), sect_len + sect_ba_len, thr)

-----------------------------------------------------------------------------
(* dedup_items and merge_items                                              *)

DedupUrls == {<<>>, <<"H", "x">>, <<"H", "x", " ">>, <<"H", "y">>}
DedupTitles == {<<>>, <<"a", " ", "b">>, <<"FWA", " ", "b", " ">>, <<"b", " ", "x">>}
DedupItems == [url : DedupUrls, title : DedupTitles]

\* the fuzzy arguments and the availability of rapidfuzz: the defaults, then
\* fuzzy matching asked for without and with the backend. At threshold 60 the
\* titles "a b" and "b x" (score 66) are fuzzy duplicates.
FuzzySettings ==
  {[enable |-> FALSE, fuzz |-> TRUE, threshold |-> 90],
   [enable |-> TRUE, fuzz |-> FALSE, threshold |-> 60],
   [enable |-> TRUE, fuzz |-> TRUE, threshold |-> 60]}

\* a slip: the title is used as its own key, neither folded nor trimmed
TitleKeyUnnormalized(title, opencc) == title

\* _title_key
_title_key(title, opencc) == normalize_text(title, TRUE, opencc)

\* the state of the pass before its first item
ScanStart == [seen_url |-> {}, seen_title |-> {}, out |-> <<>>]

\* a slip: the url of a kept item is not recorded
ScanForgetsUrl(st, it, pos, fuzzy, thr, opencc) ==
  LET url == Strip(it.url)
      tkey == _title_key(it.title, opencc)
  IN IF url # <<>> /\ url \in st.seen_url THEN st
     ELSE IF tkey # <<>> /\ tkey \in st.seen_title THEN st
     ELSE IF fuzzy /\ \E tk \in st.seen_title : TokenSetRatioAtLeast(tkey, tk, thr)
       THEN st
     ELSE [seen_url |-> st.seen_url,
           seen_title |-> IF tkey # <<>> THEN st.seen_title \cup {tkey}
                          ELSE st.seen_title,
           out |-> Append(st.out, pos)]

\* a slip: the item after a dropped one is appended unexamined (the list is
\* edited while it is walked)
ScanSkipsAfterDrop(st, it, pos, fuzzy, thr, opencc) ==
  LET url == Strip(it.url)
      tkey == _title_key(it.title, opencc)
      prevDropped == pos > 1 /\ (st.out = <<>> \/ st.out[Len(st.out)] # pos - 1)
  IN IF ~prevDropped /\ url # <<>> /\ url \in st.seen_url THEN st
     ELSE IF ~prevDropped /\ tkey # <<>> /\ tkey \in st.seen_title THEN st
     ELSE IF ~prevDropped /\ fuzzy
             /\ \E tk \in st.seen_title : TokenSetRatioAtLeast(tkey, tk, thr)
       THEN st
     ELSE [seen_url |-> IF url # <<>> THEN st.seen_url \cup {url} ELSE st.seen_url,
           seen_title |-> IF tkey # <<>> THEN st.seen_title \cup {tkey}
                          ELSE st.seen_title,
           out |-> Append(st.out, pos)]

\* one iteration of "for it in items" in dedup_items, on the item at position
\* pos; fuzzy is "enable_fuzzy and fuzz"
Scan(st, it, pos, fuzzy, thr, opencc) ==
  LET url == Strip(it.url)
      tkey == _title_key(it.title, opencc)
  IN IF url # <<>> /\ url \in st.seen_url THEN st
     ELSE IF tkey # <<>> /\ tkey \in st.seen_title THEN st
     ELSE IF fuzzy /\ \E tk \in st.seen_title : TokenSetRatioAtLeast(tkey, tk, thr)
       THEN st
     ELSE [seen_url |-> IF url # <<>> THEN st.seen_url \cup {url} ELSE st.seen_url,
           seen_title |-> IF tkey # <<>> THEN st.seen_title \cup {tkey}
                          ELSE st.seen_title,
           out |-> Append(st.out, pos)]

\* the pass over the first n items
RECURSIVE ScanFirst(_, _, _, _, _)
ScanFirst(its, n, fuzzy, thr, opencc) ==
  IF n = 0 THEN ScanStart
  ELSE Scan(ScanFirst(its, n - 1, fuzzy, thr, opencc), its[n], n, fuzzy, thr, opencc)

\* dedup_items(items, enable_fuzzy, fuzzy_threshold): the list returned
dedup_items(its, fuzzy, thr, opencc) ==
  LET kept == ScanFirst(its, Len(its), fuzzy, thr, opencc).out
  IN [k \in 1..Len(kept) |-> its[kept[k]]]

InitDD ==
  /\ IdleRL /\ IdleFA /\ IdleAD /\ IdleRS /\ IdleTS
  /\ dpc = "scan"
  /\ items \in SeqsUpTo(DedupItems, MaxItems)
  /\ \E f \in FuzzySettings :
       /\ enable_fuzzy = f.enable
       /\ has_fuzz = f.fuzz
       /\ fuzzy_threshold = f.threshold
  /\ scanned = 0
  /\ seen_url = {} /\ seen_title = {} /\ out = <<>>
  /\ second = <<>>

\* the items appended to out so far
Kept == [k \in 1..Len(out) |-> items[out[k]]]

\* the loop body of dedup_items on the next item (no title here holds a
\* character OpenCC would convert, so the pass runs without it)
ScanNext ==
  /\ dpc = "scan"
  /\ scanned < Len(items)
  /\ LET st == Scan([seen_url |-> seen_url, seen_title |-> seen_title, out |-> out],
                    items[scanned + 1], scanned + 1,
                    enable_fuzzy /\ has_fuzz, fuzzy_threshold, FALSE)
     IN /\ seen_url' = st.seen_url
        /\ seen_title' = st.seen_title
        /\ out' = st.out
  /\ scanned' = scanned + 1
  /\ UNCHANGED <<dpc, items, enable_fuzzy, has_fuzz, fuzzy_threshold, second>>
  /\ UNCHANGED notDD

\* the loop is over: "return out"
ScanEnd ==
  /\ dpc = "scan"
  /\ scanned = Len(items)
  /\ dpc' = "scanned"
  /\ UNCHANGED <<items, enable_fuzzy, has_fuzz, fuzzy_threshold, scanned,
                 seen_url, seen_title, out, second>>
  /\ UNCHANGED notDD

\* dedup_items is applied to the list it returned, with the same settings
DedupAgain ==
  /\ dpc = "scanned"
  /\ second' = dedup_items(Kept, enable_fuzzy /\ has_fuzz, fuzzy_threshold, FALSE)
  /\ dpc' = "again"
  /\ UNCHANGED <<items, enable_fuzzy, has_fuzz, fuzzy_threshold, scanned,
                 seen_url, seen_title, out>>
  /\ UNCHANGED notDD

NextDD ==
  \/ ScanNext
  \/ ScanEnd
  \/ DedupAgain

SpecDD == InitDD /\ [][NextDD]_vars

\* C4: dedup_items is idempotent: applied to its own result, with the same
\* fuzzy setting, it returns that result, element for element and in order.
C4_Idempotent ==
  dpc = "again" => second = Kept

\* a pass that dropped an item of a three-item list and kept two, applied again
C4_Witness ==
  /\ dpc = "again"
  /\ Len(items) >= 3
  /\ Len(out) = 2
  /\ Len(second) = 2

\* C5 as claimed: of two items at positions i < j with the same non-empty
\* trimmed url, the one at j is never in the output.
C5_LaterSameUrlDropped ==
  \A i, j \in 1..scanned :
    (i < j /\ Strip(items[i].url) # <<>> /\ Strip(items[i].url) = Strip(items[j].url))
      => \A k \in 1..Len(out) : out[k] # j

\* C5 amended: of two items at positions i < j with the same non-empty trimmed
\* url, at most one is in the output, and the one at j is not in it whenever
\* the one at i is.
C5_LaterSameUrlDroppedIfEarlierKept ==
  \A i, j \in 1..scanned :
    (/\ i < j
     /\ Strip(items[i].url) # <<>>
     /\ Strip(items[i].url) = Strip(items[j].url)
     /\ \E k \in 1..Len(out) : out[k] = i)
      => \A k \in 1..Len(out) : out[k] # j

\* two items with the same url (once trimmed) and different title keys were
\* scanned, the earlier one was kept and the later one dropped
C5_Witness ==
  \E i, j \in 1..scanned :
    /\ i < j
    /\ Strip(items[i].url) # <<>>
    /\ items[i].url # items[j].url
    /\ Strip(items[i].url) = Strip(items[j].url)
    /\ normalize_text(items[i].title, TRUE, FALSE)
         # normalize_text(items[j].title, TRUE, FALSE)
    /\ \E k \in 1..Len(out) : out[k] = i
    /\ \A k \in 1..Len(out) : out[k] # j

\* C10: at every step of the pass, the items kept so far are a subsequence of
\* the input, no two of them have the same non-empty trimmed url and no two
\* have the same non-empty normalized title key.
C10_KeptPairwiseDistinct ==
  /\ \A k \in 1..Len(out) : out[k] \in 1..scanned
  /\ \A k, l \in 1..Len(out) : k < l => out[k] < out[l]
  /\ \A k, l \in 1..Len(out) :
       k # l =>
         /\ Strip(items[out[k]].url) = <<>>
              \/ Strip(items[out[k]].url) # Strip(items[out[l]].url)
         /\ normalize_text(items[out[k]].title, TRUE, FALSE) = <<>>
              \/ normalize_text(items[out[k]].title, TRUE, FALSE)
                   # normalize_text(items[out[l]].title, TRUE, FALSE)

\* a finished pass that kept two items and dropped two: one for its url, one
\* for its title key
C10_Witness ==
  /\ dpc = "scanned"
  /\ Len(out) >= 2
  /\ \E j \in 1..Len(items) :
       /\ \A k \in 1..Len(out) : out[k] # j
       /\ \E k \in 1..Len(out) :
            /\ out[k] < j
            /\ Strip(items[out[k]].url) = Strip(items[j].url)
            /\ Strip(items[j].url) # <<>>
  /\ \E j \in 1..Len(items) :
       /\ \A k \in 1..Len(out) : out[k] # j
       /\ \E k \in 1..Len(out) :
            /\ out[k] < j
            /\ normalize_text(items[out[k]].title, TRUE, FALSE)
                 = normalize_text(items[j].title, TRUE, FALSE)
            /\ Strip(items[out[k]].url) # Strip(items[j].url)

-----------------------------------------------------------------------------
(* custom_to_results                                                        *)

\* a rank as a source can deliver it: None, an int, a float with an integer
\* value (v.0), or a string. "SUP2" is the character SUPERSCRIPT TWO, which
\* str.isdigit() accepts and int() rejects.
Ranks ==
  {[t |-> "none", v |-> 0, s |-> <<>>],
   [t |-> "int", v |-> 7, s |-> <<>>],
   [t |-> "int", v |-> -1, s |-> <<>>],
   [t |-> "float", v |-> 3, s |-> <<>>],
   [t |-> "str", v |-> 0, s |-> <<"5">>],
   [t |-> "str", v |-> 0, s |-> <<"SUP2">>]}

SourceKeys == {"s1", "s2"}
ReshapeTitles == {<<>>, <<"A">>, <<" ", "A">>, <<"B">>}
ReshapeUrls == {<<"H", "x">>}
CustomItems ==
  [source_key : SourceKeys, title : ReshapeTitles, url : ReshapeUrls, rank : Ranks]

AsciiDigits == <<"0", "1", "2", "3", "4", "5", "6", "7", "8", "9">>

\* str(n) for an int n of one digit, with its sign
StrOfInt(n) ==
  IF n < 0 THEN <<"-", AsciiDigits[(-n) + 1]>> ELSE <<AsciiDigits[n + 1]>>

\* str(rank)
StrOfRank(r) ==
  IF r.t = "int" THEN StrOfInt(r.v)
  ELSE IF r.t = "float" THEN StrOfInt(r.v) \o <<".", "0">>
  ELSE IF r.t = "str" THEN r.s
  ELSE <<"N", "o", "n", "e">>

\* the characters str.isdigit() accepts
IsDigitChar(c) == (\E d \in 1..10 : AsciiDigits[d] = c) \/ c = "SUP2"

\* str.isdigit()
IsDigit(s) == s # <<>> /\ \A i \in 1..Len(s) : IsDigitChar(s[i])

\* "isinstance(rank, (int, float, str)) and str(rank).isdigit()"
UsesOwnRank(r) == r.t \in {"int", "float", "str"} /\ IsDigit(StrOfRank(r))

\* whether int(rank) raises ValueError, for a rank that passed the test above
IntRaises(r) == r.t = "str" /\ \E i \in 1..Len(r.s) : r.s[i] = "SUP2"

\* int(rank), for a one-digit rank
IntOf(r) ==
  IF r.t = "str" THEN (CHOOSE d \in 1..10 : AsciiDigits[d] = r.s[1]) - 1 ELSE r.v

\* sid = f"custom:{it.get('source_key','custom')}"
Sid(it) == <<"custom:", it.source_key>>

\* c_results with the entry of (sid, title) set to e; a dict of dicts, held as
\* a function on the pairs present
PutEntry(res, sid, title, e) ==
  [p \in (DOMAIN res) \cup {<<sid, title>>} |->
     IF p = <<sid, title>> THEN e ELSE res[p]]

InitRS ==
  /\ IdleRL /\ IdleFA /\ IdleAD /\ IdleDD /\ IdleTS
  /\ rpc = "loop"
  /\ custom_items \in SeqsUpTo(CustomItems, MaxRows)
  /\ rpos = 0
  /\ c_results = <<>>
  /\ c_id_to_name = <<>>

\* one iteration of "for it in custom_items"
ReshapeNext ==
  /\ rpc = "loop"
  /\ rpos < Len(custom_items)
  /\ LET it == custom_items[rpos + 1]
         sid == Sid(it)
         title == Strip(it.title)
         old == IF <<sid, title>> \in DOMAIN c_results
                  THEN c_results[<<sid, title>>]
                  ELSE [ranks |-> <<>>, url |-> it.url, mobileUrl |-> <<>>]
         url == IF old.url # <<>> THEN old.url ELSE it.url
     IN /\ c_id_to_name' =
             [s \in (DOMAIN c_id_to_name) \cup {sid} |->
                IF s = sid THEN it.source_key ELSE c_id_to_name[s]]
        /\ IF title = <<>>
             THEN /\ c_results' = c_results
                  /\ rpc' = rpc
             ELSE IF UsesOwnRank(it.rank) /\ IntRaises(it.rank)
               THEN /\ c_results' = PutEntry(c_results, sid, title,
                                             [old EXCEPT !.url = url])
                    /\ rpc' = "raised"
             ELSE /\ c_results' =
                       PutEntry(c_results, sid, title,
                                [old EXCEPT
                                   !.url = url,
                                   !.ranks = Append(old.ranks,
                                                    IF UsesOwnRank(it.rank)
                                                      THEN IntOf(it.rank)
                                                      ELSE Len(old.ranks) + 1)])
                  /\ rpc' = rpc
  /\ rpos' = rpos + 1
  /\ UNCHANGED custom_items
  /\ UNCHANGED notRS

\* "return c_results, c_id_to_name"
ReshapeEnd ==
  /\ rpc = "loop"
  /\ rpos = Len(custom_items)
  /\ rpc' = "done"
  /\ UNCHANGED <<custom_items, rpos, c_results, c_id_to_name>>
  /\ UNCHANGED notRS

NextRS ==
  \/ ReshapeNext
  \/ ReshapeEnd

SpecRS == InitRS /\ [][NextRS]_vars

\* a rank that parses as a non-negative integer-like value: an int >= 0, a
\* float with a non-negative integer value, or a string of decimal digits
IntegerLike(r) ==
  \/ r.t \in {"int", "float"} /\ r.v >= 0
  \/ r.t = "str" /\ r.s # <<>>
       /\ \A i \in 1..Len(r.s) : \E d \in 1..10 : AsciiDigits[d] = r.s[i]

\* the ranks the claim gives (sid, title) after the first n items
RECURSIVE ClaimedRanks(_, _, _)
ClaimedRanks(sid, title, n) ==
  IF n = 0 THEN <<>>
  ELSE LET before == ClaimedRanks(sid, title, n - 1)
           it == custom_items[n]
       IN IF Sid(it) = sid /\ Strip(it.title) = title
            THEN Append(before, IF IntegerLike(it.rank) THEN IntOf(it.rank)
                                ELSE Len(before) + 1)
            ELSE before

\* C6: for every source id and non-empty trimmed title, ranks holds one entry
\* per input item of that source and title, in scan order: the item's own rank
\* when it parses as a non-negative integer-like value, else 1 + the length of
\* the list at that moment; and the call returns.
C6_RanksAsClaimed ==
  /\ rpc # "raised"
  /\ rpc = "done" =>
       \A k \in SourceKeys, title \in ReshapeTitles :
         LET p == <<(<<"custom:", k>>), Strip(title)>>
         IN Strip(title) # <<>> =>
              ClaimedRanks(p[1], p[2], Len(custom_items))
                = (IF p \in DOMAIN c_results THEN c_results[p].ranks ELSE <<>>)

-----------------------------------------------------------------------------
(* parse_ts                                                                 *)
(* Python's ints are unbounded and the threshold 1e12 does not fit a 32-bit *)
(* integer, so an epoch value v is held as [q, r] with v = q * 1000 + r and *)
(* 0 <= r < 1000: q is v // 1000.                                           *)

Thousand == 1000

\* 1e12 // 1000
MsThresholdQuotient == 1000000000

Wide(q, r) == [q |-> q, r |-> r]

\* the wide form of an integer that fits 32 bits
WideOf(n) == Wide(n \div Thousand, n % Thousand)

\* v > 1e12
ExceedsMsThreshold(v) ==
  v.q > MsThresholdQuotient \/ (v.q = MsThresholdQuotient /\ v.r > 0)

\* the arguments: None, ints around the threshold on both sides of zero, and
\* strings that dateutil parses (to the epoch given) or rejects
TsQuotients == {-1700000000, -1000000001, -1000000000, -1, 0, 1700000,
                999999999, 1000000000, 1000000001, 1700000000}
TsRemainders == {0, 1, 999}
TsArgs ==
  {[t |-> "none", v |-> Wide(0, 0), parses |-> FALSE]}
    \cup {[t |-> "int", v |-> Wide(q, r), parses |-> FALSE] :
            q \in TsQuotients, r \in TsRemainders}
    \cup {[t |-> "str", v |-> Wide(1700000, 0), parses |-> TRUE],
          [t |-> "str", v |-> Wide(0, 0), parses |-> FALSE]}

\* what time.time() may read during the call
Nows == {Wide(1700000, 0), Wide(1794000, 5), Wide(1800000, 999)}

\* parse_ts(v), with now the value of _now_ts()
parse_ts(arg, now) ==
  IF arg.t = "none" THEN now
  ELSE IF arg.t = "int"
    THEN IF ExceedsMsThreshold(arg.v) THEN WideOf(arg.v.q) ELSE arg.v
  ELSE IF arg.parses THEN arg.v ELSE now

InitTS ==
  /\ IdleRL /\ IdleFA /\ IdleAD /\ IdleDD /\ IdleRS
  /\ tpc = "call"
  /\ tv \in TsArgs
  /\ now_ts \in Nows
  /\ tres = Wide(0, 0)

ParseTs ==
  /\ tpc = "call"
  /\ tres' = parse_ts(tv, now_ts)
  /\ tpc' = "done"
  /\ UNCHANGED <<tv, now_ts>>
  /\ UNCHANGED notTS

NextTS ==
  \/ ParseTs

SpecTS == InitTS /\ [][NextTS]_vars

\* |v| > 1e12
MagnitudeExceeds(v) ==
  \/ v.q > MsThresholdQuotient \/ (v.q = MsThresholdQuotient /\ v.r > 0)
  \/ v.q < -MsThresholdQuotient

\* C9: for an integer v, parse_ts returns v floor-divided by 1000 when the
\* magnitude of v exceeds 10^12 and v itself otherwise.
C9_MillisecondsByMagnitude ==
  (tpc = "done" /\ tv.t = "int") =>
    tres = (IF MagnitudeExceeds(tv.v) THEN WideOf(tv.v.q) ELSE tv.v)

=============================================================================
